---- MODULE Spec2Model ----
(***************************************************************************)
(* A model of the No-Limit Texas Hold'em engine in src/poker_engine:       *)
(* the betting state machine of PokerGame (game.py), the legality rules    *)
(* of ActionValidator (actions.py), the per-seat record Player             *)
(* (player.py), the Deck (cards.py) and the HandEvaluator (evaluator.py).  *)
(*                                                                         *)
(* Amounts.  The engine keeps chips as Python floats and splits a pot by   *)
(* true division (pot.amount / len(winners)).  The model keeps every       *)
(* amount as an integer number of 1/Unit chips, Unit being a common        *)
(* multiple of every possible number of winners, so that the division is   *)
(* exact; Chip(n) is n whole chips.                                        *)
(*                                                                         *)
(* Cards are the integers 0..51 of Card.to_int: rank index * 4 + suit      *)
(* index.                                                                  *)
(*                                                                         *)
(* The hand history is append-only text for display; the model keeps the   *)
(* number of its lines, and Log names the line that the code appends.      *)
(***************************************************************************)
EXTENDS Integers, Sequences, FiniteSets, TLC

VARIABLES
    players,            \* PokerGame.players: seat index -> Player fields
    deck,               \* PokerGame.deck.cards
    community_cards,    \* PokerGame.community_cards
    street,             \* PokerGame.street
    pot,                \* PokerGame.pot (the accumulator)
    current_bet,        \* PokerGame.current_bet
    min_raise,          \* PokerGame.min_raise
    last_raise_amount,  \* PokerGame.last_raise_amount
    actions_this_round, \* PokerGame.actions_this_round
    bb_has_option,      \* PokerGame.bb_has_option
    button_position,    \* PokerGame.button_position
    hand_number,        \* PokerGame.hand_number
    is_hand_over,       \* PokerGame.is_hand_over
    winner,             \* PokerGame.winner (None is -1)
    hand_history,       \* PokerGame.hand_history: the number of its lines
    current_actor,      \* PokerGame.current_actor
    result,             \* the last call on the engine and what it returned
    start_chips,        \* the starting stacks passed to the last start_hand
    after_over          \* the actions accepted since the hand was over

vars == <<players, deck, community_cards, street, pot, current_bet, min_raise,
          last_raise_amount, actions_this_round, bb_has_option,
          button_position, hand_number, is_hand_over, winner, hand_history,
          current_actor, result, start_chips, after_over>>

(***************************************************************************)
(* Bounds of the model and the table's configuration.                      *)
(***************************************************************************)
\* Unit of account: 1/Unit chip; 2 * 3 is divisible by every number of
\* winners a pot can have with at most 3 seats.
Unit == 2 * 3

Chip(n) == n * Unit

\* PokerGame(small_blind, big_blind): the blinds the engine is built with.
small_blind == Chip(1)

big_blind == Chip(2)

\* start_hand is called at most this many times.
MaxHands == 1

Min(a, b) == IF a <= b THEN a ELSE b

Range(s) == {s[i] : i \in DOMAIN s}

RECURSIVE SumSeq(_)
SumSeq(s) == IF s = <<>> THEN 0 ELSE Head(s) + SumSeq(Tail(s))

\* The sum of f[i] over the seats i of S.
RECURSIVE SumOver(_, _)
SumOver(f, S) ==
    IF S = {} THEN 0
    ELSE LET i == CHOOSE x \in S : TRUE IN f[i] + SumOver(f, S \ {i})

\* The elements of a set of integers as a descending sequence.
RECURSIVE SortDesc(_)
SortDesc(S) ==
    IF S = {} THEN <<>>
    ELSE LET m == CHOOSE x \in S : \A y \in S : y <= x
         IN <<m>> \o SortDesc(S \ {m})

\* The elements of a set of integers as an ascending sequence.
RECURSIVE SortAsc(_)
SortAsc(S) ==
    IF S = {} THEN <<>>
    ELSE LET m == CHOOSE x \in S : \A y \in S : x <= y
         IN <<m>> \o SortAsc(S \ {m})

(***************************************************************************)
(* cards.py: Card and Deck.                                                *)
(***************************************************************************)
Cards == 0 .. 51

\* HandEvaluator.RANK_VALUES of the card's rank: 2..14.
RankValue(c) == (c \div 4) + 2

\* Index of the card's suit in Card.SUITS.
Suit(c) == c % 4

\* Card.to_int of the card with rank value r (2..14) and suit index s.
CardOf(r, s) == (r - 2) * 4 + s

\* The number of cards before the cut of the slices cards[:n] and cards[n:]:
\* a negative n counts from the end of the list.
slice_at(cards, n) ==
    IF n < 0
    THEN (IF Len(cards) + n < 0 THEN 0 ELSE Len(cards) + n)
    ELSE Min(n, Len(cards))

\* The first n cards, left in the deck.
peek(cards, n) ==
    [raised |-> FALSE, dealt |-> SubSeq(cards, 1, n), cards |-> cards]

\* Deck.deal(n): cards[:n] and the deck cards[n:]; with more cards asked
\* than remain it raises and the deck is unchanged.
deal(cards, n) ==
    IF n > Len(cards)
    THEN [raised |-> TRUE, dealt |-> <<>>, cards |-> cards]
    ELSE [raised |-> FALSE,
          dealt  |-> SubSeq(cards, 1, slice_at(cards, n)),
          cards  |-> SubSeq(cards, slice_at(cards, n) + 1, Len(cards))]

\* A full deck that starts with the given cards, the rest in to_int order.
DeckFrom(top) == top \o SortAsc(Cards \ Range(top))


(***************************************************************************)
(* evaluator.py: HandEvaluator.  A hand is given as the set of its cards;  *)
(* the cards of one deck are distinct.                                     *)
(***************************************************************************)
\* x << k
Shl(x, k) == x * (2 ^ k)

\* The rank values of the cards in descending order, duplicates kept
\* (cards.sort by rank, reverse=True, then [c[0] for c in cards]).
RECURSIVE RanksDesc(_)
RanksDesc(cs) ==
    IF cs = {} THEN <<>>
    ELSE LET c == CHOOSE x \in cs : \A y \in cs : RankValue(y) <= RankValue(x)
         IN <<RankValue(c)>> \o RanksDesc(cs \ {c})

\* HandEvaluator._check_straight on the set of the ranks given: the top
\* rank of the highest run of five, 5 for the wheel, 0 for none.
_check_straight(R) ==
    LET unique_ranks == SortDesc(R)
        hits == {i \in 1 .. (Len(unique_ranks) - 4) :
                    unique_ranks[i] - unique_ranks[i + 4] = 4}
    IN  IF hits # {}
        THEN unique_ranks[CHOOSE i \in hits : \A j \in hits : i <= j]
        ELSE IF {14, 5, 4, 3, 2} \subseteq R THEN 5 ELSE 0

\* sorted(rank_counts.items(), key=(count, rank), reverse=True) as a
\* sequence of <<rank, count>>.
sorted_counts(cs) ==
    LET R == {RankValue(c) : c \in cs}
        key(r) == Cardinality({c \in cs : RankValue(c) = r}) * 16 + r
        s == SortDesc({key(r) : r \in R})
    IN  [i \in 1 .. Len(s) |-> <<s[i] % 16, s[i] \div 16>>]

\* The fields r[1], r[2], ... of a score, the first n of them at most,
\* the first shifted by top, each next one by 4 less.
RECURSIVE Kickers(_, _, _)
Kickers(r, n, top) ==
    IF n = 0 \/ r = <<>> THEN 0
    ELSE Shl(Head(r), top) + Kickers(Tail(r), n - 1, top - 4)

\* The score of the high cards alone, whatever the hand holds.
high_cards_only(cs) == Kickers(RanksDesc(cs), 5, 16)

\* HandEvaluator._get_score.  Every field of a score is below 16 and has
\* its own 4 bits, so the bitwise or of the fields is their sum.  With
\* fewer than 10 cards at most one suit holds 5, which is the flush suit.
_get_score(cs) ==
    LET flush_suits == {s \in 0 .. 3 :
                            Cardinality({c \in cs : Suit(c) = s}) >= 5}
        ranks == RanksDesc(cs)
        sc == sorted_counts(cs)
        rest(k) == [i \in 1 .. (Len(sc) - k) |-> sc[i + k][1]]
    IN  IF flush_suits # {}
        THEN LET flush_suit == CHOOSE s \in flush_suits : TRUE
                 flush_ranks ==
                     SortDesc({RankValue(c) : c \in {x \in cs : Suit(x) = flush_suit}})
                 sf_score == _check_straight(Range(flush_ranks))
             IN  IF sf_score # 0
                 THEN Shl(8, 20) + sf_score
                 ELSE Shl(5, 20) + Kickers(flush_ranks, 5, 16)
        ELSE IF _check_straight(Range(ranks)) # 0
        THEN Shl(4, 20) + _check_straight(Range(ranks))
        ELSE IF sc[1][2] = 4
        THEN Shl(7, 20) + Shl(sc[1][1], 16) + Kickers(rest(1), 1, 12)
        ELSE IF sc[1][2] = 3 /\ Len(sc) > 1 /\ sc[2][2] >= 2
        THEN Shl(6, 20) + Shl(sc[1][1], 16) + Shl(sc[2][1], 12)
        ELSE IF sc[1][2] = 3
        THEN Shl(3, 20) + Shl(sc[1][1], 16) + Kickers(rest(1), 2, 12)
        ELSE IF sc[1][2] = 2 /\ Len(sc) > 1 /\ sc[2][2] = 2
        THEN Shl(2, 20) + Shl(sc[1][1], 16) + Shl(sc[2][1], 12)
                 + Kickers(rest(2), 1, 8)
        ELSE IF sc[1][2] = 2
        THEN Shl(1, 20) + Shl(sc[1][1], 16) + Kickers(rest(1), 3, 12)
        ELSE Kickers(ranks, 5, 16)

\* HandEvaluator.evaluate(hole_cards, community_cards).
evaluate(hole, community) ==
    LET all_cards == Range(hole \o community)
    IN  IF all_cards = {} THEN 0 ELSE _get_score(all_cards)

\* processed_cards.sort(key=rank, reverse=True) on a list of cards: the
\* sort is stable, cards of one rank keep their order.
RECURSIVE by_rank_desc(_)
by_rank_desc(s) ==
    IF s = <<>> THEN <<>>
    ELSE LET top == CHOOSE r \in {RankValue(s[k]) : k \in DOMAIN s} :
                        \A k \in DOMAIN s : RankValue(s[k]) <= r
             i == CHOOSE k \in DOMAIN s :
                      /\ RankValue(s[k]) = top
                      /\ \A j \in 1 .. (k - 1) : RankValue(s[j]) # top
         IN  <<s[i]>> \o by_rank_desc(SubSeq(s, 1, i - 1) \o SubSeq(s, i + 1, Len(s)))

\* s[:n]
first_n(s, n) == SubSeq(s, 1, Min(n, Len(s)))

\* HandEvaluator.get_best_five(hole_cards, community_cards): the list of
\* cards returned.
get_best_five(hole, community) ==
    LET all_cards == hole \o community
        processed_cards == by_rank_desc(all_cards)
        cs == Range(all_cards)
        flush_suits == {s \in 0 .. 3 :
                            Cardinality({c \in cs : Suit(c) = s}) >= 5}
        sc == sorted_counts(cs)
        of_rank(r) == SelectSeq(processed_cards, LAMBDA c : RankValue(c) = r)
        not_in(res) == SelectSeq(processed_cards, LAMBDA c : c \notin Range(res))
        needed(high) == IF high = 5 THEN {14, 5, 4, 3, 2} ELSE (high - 4) .. high
        straight_high == _check_straight({RankValue(c) : c \in cs})
    IN  IF Len(all_cards) < 5 THEN all_cards
        ELSE IF flush_suits # {}
        THEN LET flush_suit == CHOOSE s \in flush_suits : TRUE
                 flush_cards ==
                     SelectSeq(processed_cards, LAMBDA c : Suit(c) = flush_suit)
                 sf_high == _check_straight({RankValue(c) : c \in Range(flush_cards)})
             IN  IF sf_high # 0
                 THEN first_n(SelectSeq(flush_cards,
                                  LAMBDA c : RankValue(c) \in needed(sf_high)), 5)
                 ELSE first_n(flush_cards, 5)
        ELSE IF straight_high # 0
        THEN LET order == SortDesc(needed(straight_high))
             IN  first_n([k \in 1 .. Len(order) |-> Head(of_rank(order[k]))], 5)
        ELSE IF sc[1][2] = 4
        THEN of_rank(sc[1][1]) \o first_n(not_in(of_rank(sc[1][1])), 1)
        ELSE IF sc[1][2] = 3 /\ Len(sc) > 1 /\ sc[2][2] >= 2
        THEN of_rank(sc[1][1]) \o first_n(of_rank(sc[2][1]), 2)
        ELSE IF sc[1][2] = 3
        THEN of_rank(sc[1][1]) \o first_n(not_in(of_rank(sc[1][1])), 2)
        ELSE IF sc[1][2] = 2 /\ Len(sc) > 1 /\ sc[2][2] = 2
        THEN LET pairs == SelectSeq(processed_cards,
                              LAMBDA c : RankValue(c) \in {sc[1][1], sc[2][1]})
             IN  pairs \o first_n(not_in(pairs), 1)
        ELSE IF sc[1][2] = 2
        THEN of_rank(sc[1][1]) \o first_n(not_in(of_rank(sc[1][1])), 3)
        ELSE first_n(processed_cards, 5)

(***************************************************************************)
(* player.py: Player.                                                      *)
(***************************************************************************)
States == {"active", "folded", "all_in"}

\* Player.__init__(player_id, chips).
Player(chips) ==
    [chips          |-> chips,
     hand           |-> <<>>,
     state          |-> "active",
     bet_this_round |-> 0,
     bet_this_hand  |-> 0,
     last_action    |-> "None"]

\* The player after a bet of the whole amount, whatever chips it has.
bet_in_full(p, amount) ==
    [p EXCEPT !.chips = @ - amount,
              !.bet_this_round = @ + amount,
              !.bet_this_hand = @ + amount,
              !.state = IF p.chips - amount <= 0 THEN "all_in" ELSE @]

\* Player.place_bet(amount): the player after the bet.
place_bet(p, amount) ==
    LET actual_amount == Min(amount, p.chips)
    IN  [p EXCEPT !.chips = @ - actual_amount,
                  !.bet_this_round = @ + actual_amount,
                  !.bet_this_hand = @ + actual_amount,
                  !.state = IF p.chips - actual_amount <= 0
                            THEN "all_in" ELSE @]

\* What Player.place_bet(amount) returns: the amount actually bet.
actual_bet(p, amount) == Min(amount, p.chips)

\* Player.post_blind(amount).
post_blind(p, amount) == place_bet(p, amount)

\* Player.fold().
fold(p) == [p EXCEPT !.state = "folded"]

\* Player.reset_for_new_round().
reset_for_new_round(p) ==
    [p EXCEPT !.bet_this_round = 0, !.last_action = "None"]

is_all_in(p) == p.state = "all_in"

is_folded(p) == p.state = "folded"

(***************************************************************************)
(* actions.py: Action and ActionValidator.                                 *)
(***************************************************************************)
ActionTypes == {"fold", "check", "call", "bet", "raise", "all_in"}

Action(action_type, amount) == [action_type |-> action_type, amount |-> amount]

Valid == [is_valid |-> TRUE, error |-> "None"]

Invalid(error) == [is_valid |-> FALSE, error |-> error]

\* ActionValidator.validate_action; pot_size is not used by the code.
validate_action(action, player_chips, cur_bet, player_bet_this_round, minraise) ==
    LET amount_to_call == cur_bet - player_bet_this_round
        raise_increment == action.amount - cur_bet
    IN  CASE action.action_type = "fold" -> Valid
          [] action.action_type = "check" ->
                IF amount_to_call > 0
                THEN Invalid("Cannot check when facing a bet")
                ELSE Valid
          [] action.action_type = "call" ->
                IF amount_to_call <= 0 THEN Invalid("Nothing to call")
                ELSE IF player_chips < amount_to_call
                THEN Invalid("Not enough chips to call (should be all-in)")
                ELSE Valid
          [] action.action_type = "bet" ->
                IF cur_bet > 0
                THEN Invalid("Cannot bet when facing a bet (use raise)")
                ELSE IF action.amount > player_chips
                THEN Invalid("Bet exceeds chip count")
                ELSE Valid
          [] action.action_type = "raise" ->
                IF cur_bet = 0
                THEN Invalid("Cannot raise when no bet exists (use bet)")
                ELSE IF raise_increment < minraise
                THEN Invalid("Raise must be at least min_raise")
                ELSE IF action.amount > player_chips + player_bet_this_round
                THEN Invalid("Not enough chips (use all-in instead)")
                ELSE Valid
          [] action.action_type = "all_in" ->
                IF player_chips <= 0
                THEN Invalid("No chips to go all-in with")
                ELSE Valid
          [] OTHER -> Invalid("Unknown action type")

\* Fold, Check and AllIn, whatever the situation.
always_the_same(player_chips, cur_bet, player_bet_this_round, minraise) ==
    <<"fold", "check", "all_in">>

\* ActionValidator.get_legal_actions, the list it returns.
validator_legal_actions(player_chips, cur_bet, player_bet_this_round, minraise) ==
    LET amount_to_call == cur_bet - player_bet_this_round
    IN  <<"fold">>
        \o (IF amount_to_call = 0 THEN <<"check">>
            ELSE IF player_chips >= amount_to_call THEN <<"call">> ELSE <<>>)
        \o (IF player_chips > amount_to_call
            THEN IF cur_bet = 0 THEN <<"bet">>
                 ELSE IF player_chips - amount_to_call >= minraise
                 THEN <<"raise">> ELSE <<>>
            ELSE <<>>)
        \o (IF player_chips > 0 THEN <<"all_in">> ELSE <<>>)

(***************************************************************************)
(* game.py: PokerGame.  The operators below take the engine's fields as    *)
(* one record g and give the record after the method has run.              *)
(***************************************************************************)
Streets == <<"preflop", "flop", "turn", "river", "showdown">>

\* None, and the -1 of "no actor".
NoOne == -1

Seats(g) == DOMAIN g.players

NumPlayers(g) == Cardinality(DOMAIN g.players)

Log(g, line) == [g EXCEPT !.hand_history = @ + 1]

\* PokerGame.__init__(small_blind, big_blind); min_raise is not set
\* before start_hand (NoOne stands for the missing attribute).
NewGame(shuffled) ==
    [players            |-> <<>>,
     deck               |-> shuffled,
     community_cards    |-> <<>>,
     street             |-> "preflop",
     pot                |-> 0,
     current_bet        |-> 0,
     min_raise          |-> NoOne,
     last_raise_amount  |-> big_blind,
     actions_this_round |-> 0,
     bb_has_option      |-> FALSE,
     button_position    |-> 0,
     hand_number        |-> 0,
     is_hand_over       |-> FALSE,
     winner             |-> NoOne,
     hand_history       |-> 0,
     current_actor      |-> NoOne]

\* The seat of the small blind: the button heads-up, else the seat after it.
sb_position(n, button) == IF n = 2 THEN button ELSE (button + 1) % n

\* The seat after the button, whatever the number of seats.
seat_after_button(n, button) == (button + 1) % n

\* The seat of the big blind as start_hand computes it.
bb_position(n, button) == IF n = 2 THEN (button + 1) % n ELSE (button + 2) % n

\* PokerGame.start_hand(players_info, button) with the deck's shuffle
\* giving the order shuffled; players_info is the sequence of the stacks.
\* With fewer than 2 seats it raises after its first five assignments.
start_hand(g, players_info, button, shuffled) ==
    LET num_players == Len(players_info)
        g0 == [g EXCEPT !.hand_number = @ + 1,
                        !.button_position = button,
                        !.is_hand_over = FALSE,
                        !.winner = NoOne,
                        !.hand_history = 0]
        sb_pos == sb_position(num_players, button)
        bb_pos == bb_position(num_players, button)
        dealt == [i \in 0 .. (num_players - 1) |->
                    [Player(players_info[i + 1]) EXCEPT
                        !.hand = SubSeq(shuffled, 2 * i + 1, 2 * i + 2)]]
        with_sb == [dealt EXCEPT ![sb_pos] =
                        [post_blind(@, small_blind) EXCEPT
                            !.last_action = "Post SB"]]
        with_bb == [with_sb EXCEPT ![bb_pos] =
                        [post_blind(@, big_blind) EXCEPT
                            !.last_action = "Post BB"]]
        actual_bb == actual_bet(with_sb[bb_pos], big_blind)
    IN  IF num_players < 2
        THEN [raised |-> TRUE, g |-> g0]
        ELSE [raised |-> FALSE,
              g |-> [g0 EXCEPT
                !.players = with_bb,
                !.deck = SubSeq(shuffled, 2 * num_players + 1, Len(shuffled)),
                !.community_cards = <<>>,
                !.street = "preflop",
                !.pot = 0,
                !.current_bet = big_blind,
                !.min_raise = big_blind,
                !.last_raise_amount = big_blind,
                !.actions_this_round = 0,
                !.bb_has_option = (actual_bb >= big_blind),
                !.hand_history = 2,
                !.current_actor = (bb_pos + 1) % num_players]]

\* PokerGame.get_current_player.
get_current_player(g) == g.current_actor

\* The seats that have not folded (active_players).
active_players(g) == {i \in Seats(g) : ~is_folded(g.players[i])}

\* PokerGame.get_pot_size.
get_pot_size(g) ==
    g.pot + SumOver([i \in Seats(g) |-> g.players[i].bet_this_round], Seats(g))

\* PokerGame._is_betting_round_over.
_is_betting_round_over(g) ==
    LET num_active == Cardinality(active_players(g))
    IN  IF num_active <= 1 THEN TRUE
        ELSE IF g.street = "preflop" /\ g.bb_has_option THEN FALSE
        ELSE IF g.current_bet = 0
        THEN ~(g.actions_this_round < num_active)
        ELSE \A i \in active_players(g) :
                ~(~is_all_in(g.players[i])
                  /\ g.players[i].bet_this_round < g.current_bet)

\* The seat the search starts at, whatever its state.
seat_at_start(g, start) == start

\* The first seat, in cyclic order from start, that is neither folded nor
\* all-in; NoOne when there is none (the loops of _advance_actor and
\* _advance_street).
first_eligible(g, start) ==
    LET n == NumPlayers(g)
        ok(k) == LET q == g.players[(start + k) % n]
                 IN  ~is_folded(q) /\ ~is_all_in(q)
        ks == {k \in 0 .. (n - 1) : ok(k)}
    IN  IF ks = {} THEN NoOne
        ELSE (start + (CHOOSE k \in ks : \A j \in ks : k <= j)) % n

\* PokerGame._advance_actor.
_advance_actor(g) ==
    IF _is_betting_round_over(g)
    THEN [g EXCEPT !.current_actor = NoOne]
    ELSE [g EXCEPT !.current_actor =
            first_eligible(g, (g.current_actor + 1) % NumPlayers(g))]

\* No run-out, whatever chips the seats have.
never_auto_advance(g) == FALSE

\* PokerGame._should_auto_advance.
_should_auto_advance(g) ==
    LET players_with_chips == {i \in active_players(g) : g.players[i].chips > 0}
    IN  Cardinality(players_with_chips) <= 1
        /\ Cardinality(active_players(g)) > 1

\* The seats with chips in the hand in seat order, not by what they put in.
seats_in_order(g) ==
    LET in == SortAsc({i \in Seats(g) : g.players[i].bet_this_hand > 0})
    IN  [k \in 1 .. Len(in) |-> in[k]]

\* The seats with a positive bet_this_hand, sorted by it (player_bets after
\* its stable sort: seats of equal bets stay in seat order).
player_bets(g) ==
    LET in == {i \in Seats(g) : g.players[i].bet_this_hand > 0}
        keys == SortAsc({g.players[i].bet_this_hand * 16 + i : i \in in})
    IN  [k \in 1 .. Len(keys) |-> keys[k] % 16]

\* The loop of _calculate_pots from the k-th entry of player_bets on;
\* remaining_players are the seats of the entries not yet passed.
RECURSIVE pots_from(_, _, _, _, _)
pots_from(g, order, k, previous_level, pots) ==
    IF k > Len(order) THEN pots
    ELSE LET bet_amount == g.players[order[k]].bet_this_hand
             remaining_players == {order[j] : j \in k .. Len(order)}
             pot_size == (bet_amount - previous_level)
                            * Cardinality(remaining_players)
             eligible_players ==
                 {q \in remaining_players : ~is_folded(g.players[q])}
         IN  IF bet_amount > previous_level
             THEN pots_from(g, order, k + 1, bet_amount,
                    IF eligible_players # {}
                    THEN Append(pots, [amount |-> pot_size,
                                       eligible_players |-> eligible_players])
                    ELSE IF pots # <<>>
                    THEN [pots EXCEPT ![Len(pots)].amount = @ + pot_size]
                    ELSE pots)
             ELSE pots_from(g, order, k + 1, previous_level, pots)

\* One pot of all the chips for every seat that put chips in the hand.
main_pot_only(g) ==
    LET in == {i \in Seats(g) : g.players[i].bet_this_hand > 0}
    IN  <<[amount |-> SumOver([i \in Seats(g) |-> g.players[i].bet_this_hand],
                              in),
           eligible_players |-> in]>>

\* PokerGame._calculate_pots: the sequence of Pot(amount, eligible_players).
_calculate_pots(g) == pots_from(g, player_bets(g), 1, 0, <<>>)

\* The score of seat i's hand with the board.
hand_value(g, i) == evaluate(g.players[i].hand, g.community_cards)

\* Every seat in the hand that is eligible for the pot, whatever it holds.
every_eligible(g, eligible) == active_players(g) \cap eligible

\* The winners of a pot: the seats of the best hand among the non-folded
\* seats eligible for it.
pot_winners(g, eligible) ==
    LET eligible_hands == active_players(g) \cap eligible
    IN  {i \in eligible_hands :
            \A j \in eligible_hands : hand_value(g, j) <= hand_value(g, i)}

\* pot.amount / len(winners); amounts are in 1/Unit chips.
pot_share(amount, winners) == amount \div Cardinality(winners)

\* The award loop of _showdown from the k-th pot on.  tw is total_winnings:
\* tw.won the amounts, tw.order the seats in order of insertion.
RECURSIVE award_from(_, _, _, _)
award_from(g, pots, k, tw) ==
    IF k > Len(pots) THEN [g |-> g, tw |-> tw]
    ELSE LET winners == pot_winners(g, pots[k].eligible_players)
             share == pot_share(pots[k].amount, winners)
             paid == [g EXCEPT !.players =
                        [i \in Seats(g) |->
                            IF i \in winners
                            THEN [@[i] EXCEPT !.chips = @ + share]
                            ELSE @[i]]]
             new == SortAsc(winners \ Range(tw.order))
             tw1 == [won |-> [i \in Seats(g) |->
                                IF i \in winners THEN tw.won[i] + share
                                ELSE tw.won[i]],
                     order |-> tw.order \o new]
             line == <<IF k = 1 THEN "Main pot" ELSE "Side pot", k - 1,
                       winners, pots[k].amount, share>>
         IN  IF winners = {}
             THEN award_from(g, pots, k + 1, tw)
             ELSE award_from(Log(paid, line), pots, k + 1, tw1)

\* The lines "P<i>: <hand name>" of the showdown, in seat order; the hand
\* name is the category, score >> 20.
RECURSIVE log_hands(_, _)
log_hands(g, todo) ==
    IF todo = <<>> THEN g
    ELSE log_hands(Log(g, <<"shows", Head(todo),
                            hand_value(g, Head(todo)) \div (2 ^ 20)>>),
                   Tail(todo))

\* max(total_winnings.items(), key=amount)[0]: the first seat, in order of
\* insertion, that won the most.
primary_winner(tw) ==
    LET best == {k \in DOMAIN tw.order :
                    \A j \in DOMAIN tw.order :
                        tw.won[tw.order[j]] <= tw.won[tw.order[k]]}
    IN  tw.order[CHOOSE k \in best : \A j \in best : k <= j]

\* PokerGame._showdown (the second definition in the class, which is the
\* one in force).
_showdown(g) ==
    LET g1 == [g EXCEPT !.street = "showdown", !.pot = get_pot_size(g)]
        active == active_players(g1)
        only == CHOOSE i \in active : TRUE
        pots == _calculate_pots(g1)
        shown == log_hands(Log(g1, <<"Showdown:">>), SortAsc(active))
        awarded == award_from(shown, pots, 1,
                        [won |-> [i \in Seats(g) |-> 0], order |-> <<>>])
    IN  IF Cardinality(active) = 1
        THEN [Log(g1, <<"wins (opponent folded)", only, g1.pot>>) EXCEPT
                 !.winner = only,
                 !.players[only].chips = @ + g1.pot,
                 !.is_hand_over = TRUE]
        ELSE [awarded.g EXCEPT
                 !.winner = IF awarded.tw.order # <<>>
                            THEN primary_winner(awarded.tw) ELSE @,
                 !.is_hand_over = TRUE]

\* PokerGame._check_hand_over.
_check_hand_over(g) ==
    LET active == active_players(g)
        only == CHOOSE i \in active : TRUE
        total == get_pot_size(g)
    IN  IF Cardinality(active) = 1
        THEN [g EXCEPT
                !.winner = only,
                !.pot = total,
                !.players = [i \in Seats(g) |->
                    [@[i] EXCEPT !.bet_this_round = 0,
                                 !.chips = IF i = only THEN @ + total ELSE @]],
                !.is_hand_over = TRUE,
                !.street = "showdown"]
        ELSE g

\* The showdown at once, whatever the street.
straight_to_showdown(g) == _showdown(g)

\* PokerGame._advance_street, the automatic run-out (its call of itself)
\* included.
RECURSIVE _advance_street(_)
_advance_street(g) ==
    LET collected ==
            [g EXCEPT !.pot = get_pot_size(g),
                      !.players = [i \in Seats(g) |-> reset_for_new_round(@[i])],
                      !.current_bet = 0,
                      !.min_raise = big_blind,
                      !.last_raise_amount = big_blind,
                      !.actions_this_round = 0]
        \* one card burnt, then n cards to the board
        board(n, next, name) ==
            LET burnt == deal(collected.deck, 1)
                got == deal(burnt.cards, n)
            IN  Log([collected EXCEPT
                        !.deck = got.cards,
                        !.community_cards = @ \o got.dealt,
                        !.street = next],
                    <<name, got.dealt>>)
        dealt == CASE g.street = "preflop" -> board(3, "flop", "Flop")
                   [] g.street = "flop" -> board(1, "turn", "Turn")
                   [] g.street = "turn" -> board(1, "river", "River")
                   [] OTHER -> collected
        start_pos == (g.button_position + 1) % NumPlayers(g)
        found == first_eligible(dealt, start_pos)
        seated == IF dealt.street # "showdown"
                  THEN [dealt EXCEPT !.current_actor =
                            IF found = NoOne THEN start_pos ELSE found]
                  ELSE dealt
    IN  IF g.street = "river" THEN _showdown(collected)
        ELSE IF seated.street # "showdown" /\ ~seated.is_hand_over
                /\ _should_auto_advance(seated)
        THEN _advance_street(seated)
        ELSE seated

\* The seat that the list indexing players[player_id] reads: a negative
\* index counts from the end of the list.
seat_at(g, player_id) ==
    IF player_id < 0 THEN NumPlayers(g) + player_id ELSE player_id

\* PokerGame.get_legal_actions(player_id), the list it returns.
get_legal_actions(g, player_id) ==
    LET player == g.players[seat_at(g, player_id)]
        legal_actions == validator_legal_actions(player.chips, g.current_bet,
                            player.bet_this_round, g.min_raise)
        amount_to_call == g.current_bet - player.bet_this_round
        sb_pos == sb_position(NumPlayers(g), g.button_position)
        is_preflop_sb == g.street = "preflop" /\ player_id = sb_pos
    IN  IF ~is_preflop_sb /\ 0 < amount_to_call /\ amount_to_call < g.min_raise
        THEN SelectSeq(legal_actions, LAMBDA a : a # "raise")
        ELSE legal_actions

\* What process_action leaves when an exception ends the call: the engine
\* as it was, and no pair returned.
raises(g, exception) == [g |-> g, accepted |-> FALSE, error |-> exception]

\* A rejection that has counted the action before refusing it.
rejected_counted(g, error) ==
    [g |-> [g EXCEPT !.actions_this_round = @ + 1],
     accepted |-> FALSE, error |-> error]

\* What process_action returns when it rejects the call: the engine as it
\* was and (False, error).
rejected(g, error) == [g |-> g, accepted |-> FALSE, error |-> error]

\* An all-in that never counts as a raise.
is_never_full_raise(raise_amount, minraise) == FALSE

\* The test of process_action's AllIn branch: the amount by which the all-in
\* exceeds the bet to match is a full raise.
is_full_raise(raise_amount, minraise) == raise_amount >= minraise

\* The branch of process_action for the action's type, on the engine g
\* after the action was counted; last_action keeps the label's words.
apply_action(g, player_id, action) ==
    LET seat == seat_at(g, player_id)
        player == g.players[seat]
        amount_to_call == g.current_bet - player.bet_this_round
        bet(amount, label) ==
            [place_bet(player, amount) EXCEPT !.last_action = label]
        called == bet(amount_to_call, "Call")
        betted == bet(action.amount, "Bet")
        raised == bet(action.amount - player.bet_this_round, "Raise To")
        shoved == bet(player.chips, "All-in")
        raise_amount == shoved.bet_this_round - g.current_bet
    IN  CASE action.action_type = "fold" ->
                _check_hand_over(
                    Log([g EXCEPT !.players[seat] =
                            [fold(player) EXCEPT !.last_action = "FOLDED"]],
                        <<"folds", player_id>>))
          [] action.action_type = "check" ->
                Log([g EXCEPT !.players[seat].last_action = "Check"],
                    <<"checks", player_id>>)
          [] action.action_type = "call" ->
                Log([g EXCEPT !.players[seat] = called],
                    <<"calls", player_id, actual_bet(player, amount_to_call)>>)
          [] action.action_type = "bet" ->
                Log([g EXCEPT !.players[seat] = betted,
                              !.current_bet = betted.bet_this_round,
                              !.last_raise_amount = action.amount,
                              !.min_raise = action.amount],
                    <<"bets", player_id, actual_bet(player, action.amount)>>)
          [] action.action_type = "raise" ->
                Log([g EXCEPT !.players[seat] = raised,
                              !.current_bet = raised.bet_this_round,
                              !.last_raise_amount =
                                  raised.bet_this_round - g.current_bet,
                              !.min_raise =
                                  raised.bet_this_round - g.current_bet],
                    <<"raises to", player_id, raised.bet_this_round>>)
          [] action.action_type = "all_in" ->
                Log(IF shoved.bet_this_round > g.current_bet
                    THEN [g EXCEPT
                            !.players[seat] = shoved,
                            !.current_bet = shoved.bet_this_round,
                            !.last_raise_amount =
                                IF is_full_raise(raise_amount, g.min_raise)
                                THEN raise_amount ELSE @,
                            !.min_raise =
                                IF is_full_raise(raise_amount, g.min_raise)
                                THEN raise_amount ELSE @]
                    ELSE [g EXCEPT !.players[seat] = shoved],
                    <<"all-in for", player_id, actual_bet(player, player.chips)>>)

\* Whether process_action(player_id, action) passes its two checks: the
\* seat is the designated actor and validate_action accepts the action.
accepts(g, player_id, action) ==
    /\ player_id = g.current_actor
    /\ seat_at(g, player_id) \in Seats(g)
    /\ validate_action(action, g.players[seat_at(g, player_id)].chips, g.current_bet,
                       g.players[seat_at(g, player_id)].bet_this_round,
                       g.min_raise).is_valid

\* PokerGame.process_action(player_id, action): the engine after the call
\* and the pair (success, error_message) it returns.
process_action(g, player_id, action) ==
    LET player == g.players[seat_at(g, player_id)]
        checked == validate_action(action, player.chips, g.current_bet,
                                   player.bet_this_round, g.min_raise)
        counted == [g EXCEPT !.actions_this_round = @ + 1]
        bb_pos == IF NumPlayers(g) > 2
                  THEN (g.button_position + 2) % NumPlayers(g)
                  ELSE 1 - g.button_position
        optioned == IF g.street = "preflop" /\ g.bb_has_option
                       /\ player_id = bb_pos
                    THEN [counted EXCEPT !.bb_has_option = FALSE]
                    ELSE counted
        applied == apply_action(optioned, player_id, action)
        done(h) == [g |-> h, accepted |-> TRUE, error |-> "None"]
    IN  IF player_id # g.current_actor THEN rejected(g, "Not your turn")
        ELSE IF seat_at(g, player_id) \notin Seats(g)
        THEN raises(g, "IndexError")
        ELSE IF ~checked.is_valid THEN rejected(g, checked.error)
        ELSE IF action.action_type = "fold" /\ applied.is_hand_over
        THEN done([applied EXCEPT !.current_actor = NoOne])
        ELSE IF _is_betting_round_over(applied)
        THEN done(_advance_street(applied))
        ELSE done(_advance_actor(applied))

(***************************************************************************)
(* The engine as a state machine: its fields are the variables, its two    *)
(* public operations the actions.                                          *)
(***************************************************************************)
\* The engine's fields as one record.
Self ==
    [players            |-> players,
     deck               |-> deck,
     community_cards    |-> community_cards,
     street             |-> street,
     pot                |-> pot,
     current_bet        |-> current_bet,
     min_raise          |-> min_raise,
     last_raise_amount  |-> last_raise_amount,
     actions_this_round |-> actions_this_round,
     bb_has_option      |-> bb_has_option,
     button_position    |-> button_position,
     hand_number        |-> hand_number,
     is_hand_over       |-> is_hand_over,
     winner             |-> winner,
     hand_history       |-> hand_history,
     current_actor      |-> current_actor]

\* The engine's fields become those of g.
Becomes(g) ==
    /\ players' = g.players
    /\ deck' = g.deck
    /\ community_cards' = g.community_cards
    /\ street' = g.street
    /\ pot' = g.pot
    /\ current_bet' = g.current_bet
    /\ min_raise' = g.min_raise
    /\ last_raise_amount' = g.last_raise_amount
    /\ actions_this_round' = g.actions_this_round
    /\ bb_has_option' = g.bb_has_option
    /\ button_position' = g.button_position
    /\ hand_number' = g.hand_number
    /\ is_hand_over' = g.is_hand_over
    /\ winner' = g.winner
    /\ hand_history' = g.hand_history
    /\ current_actor' = g.current_actor

\* The engine's fields are those of g.
Is(g) ==
    /\ players = g.players
    /\ deck = g.deck
    /\ community_cards = g.community_cards
    /\ street = g.street
    /\ pot = g.pot
    /\ current_bet = g.current_bet
    /\ min_raise = g.min_raise
    /\ last_raise_amount = g.last_raise_amount
    /\ actions_this_round = g.actions_this_round
    /\ bb_has_option = g.bb_has_option
    /\ button_position = g.button_position
    /\ hand_number = g.hand_number
    /\ is_hand_over = g.is_hand_over
    /\ winner = g.winner
    /\ hand_history = g.hand_history
    /\ current_actor = g.current_actor

\* The orders random.shuffle leaves the deck in that the model tries, named
\* by the hands they give at a showdown (heads-up / with three seats).
\* Seat 0 has the best hand / seat 0 beats seat 1 beats seat 2.
DeckA == DeckFrom(<<41, 36, 43, 28, 18, 45, 24, 42, 22, 1, 29, 49, 10, 7>>)

\* Seat 1 has the best hand / seat 2 beats seat 1 beats seat 0.
DeckB == DeckFrom(<<51, 46, 25, 29, 49, 5, 10, 45, 8, 1, 9, 37, 48, 41>>)

\* All seats tie.
DeckC == DeckFrom(<<20, 24, 23, 27, 7, 26, 9, 44, 16, 50, 6, 49, 22, 33>>)

\* Seat 0 has the best hand / seats 1 and 2 tie and beat seat 0.
DeckD == DeckFrom(<<12, 29, 41, 13, 40, 30, 15, 26, 38, 25, 49, 24, 37, 48>>)

\* Seat 1 has the best hand / seats 0 and 1 tie and beat seat 2.
DeckE == DeckFrom(<<51, 2, 50, 41, 39, 17, 43, 47, 46, 40, 34, 49, 44, 6>>)

DeckOrders == {DeckA, DeckB, DeckC, DeckD, DeckE}

Deal(stacks, button, shuffled) ==
    [stacks |-> stacks, button |-> button, shuffled |-> shuffled]

\* The hands the model tries: the starting stacks of the seats in whole
\* chips, the button, and the order of the deck.
Deals ==
    {Deal(<<4, 3>>, 0, d) : d \in {DeckA, DeckB, DeckC}}
    \cup {Deal(<<7, 5>>, 0, DeckA), Deal(<<5, 7>>, 0, DeckB),
          Deal(<<7, 2>>, 0, DeckA), Deal(<<1, 7>>, 0, DeckA),
          Deal(<<7, 1>>, 1, DeckB), Deal(<<12, 8>>, 0, DeckA)}
    \cup {Deal(<<3, 2, 1>>, 0, d) : d \in DeckOrders}
    \cup {Deal(<<4, 3, 2>>, 1, DeckD), Deal(<<3, 3, 3>>, 0, DeckA)}

\* The player_id values a caller passes to process_action: the seat numbers
\* and the value get_current_player returns when no seat is to act.
PlayerIds == {NoOne} \cup (0 .. 2)

\* The amounts a caller passes with a Bet or a RaiseTo, in whole chips.
BetSizes == {-1, 0, 2, 4}

\* The actions a caller passes; Fold, Check, Call and AllIn ignore the amount.
Actions ==
    {Action(t, 0) : t \in {"fold", "check", "call", "all_in"}}
    \cup {Action(t, Chip(a)) : t \in {"bet", "raise"}, a \in BetSizes}

\* A round in which the engine has accepted this many actions gets no more
\* calls.
MaxRoundActions == 8

\* A hand that is over gets no more calls once the engine has accepted this
\* many actions after its end.
MaxAfterOver == 1

NoCall == [player_id |-> NoOne, action_type |-> "none", amount |-> 0]

Init ==
    /\ \E shuffled \in DeckOrders : Is(NewGame(shuffled))
    /\ result = [op |-> "PokerGame", accepted |-> TRUE, error |-> "None",
                 call |-> NoCall]
    /\ start_chips = <<>>
    /\ after_over = 0

\* A call of start_hand(players_info, button).
StartHand ==
    /\ hand_number < MaxHands
    /\ \E d \in Deals :
       \E stacks \in {[i \in DOMAIN d.stacks |-> Chip(d.stacks[i])]} :
          /\ Becomes(start_hand(Self, stacks, d.button, d.shuffled).g)
          /\ start_chips' = stacks
    /\ result' = [op |-> "start_hand", accepted |-> TRUE, error |-> "None",
                  call |-> NoCall]
    /\ after_over' = 0

\* A call of process_action(player_id, action).  The result keeps the
\* arguments of an accepted call only.
ProcessAction ==
    /\ actions_this_round < MaxRoundActions
    /\ after_over < MaxAfterOver
    /\ \E player_id \in PlayerIds :
       \E action \in Actions :
       \E r \in {process_action(Self, player_id, action)} :
          /\ Becomes(r.g)
          /\ result' = [op |-> "process_action",
                        accepted |-> r.accepted, error |-> r.error,
                        call |-> IF r.accepted
                                 THEN [player_id |-> player_id,
                                       action_type |-> action.action_type,
                                       amount |-> action.amount]
                                 ELSE NoCall]
          /\ after_over' = IF r.accepted /\ is_hand_over
                           THEN after_over + 1 ELSE after_over
    /\ UNCHANGED start_chips

Next == StartHand \/ ProcessAction

Spec == Init /\ [][Next]_vars

(***************************************************************************)
(* The properties of the engine.                                           *)
(***************************************************************************)
\* start_hand has been called.
HandStarted == hand_number > 0

\* The chips of all seats.
TotalChips == SumOver([i \in DOMAIN players |-> players[i].chips],
                      DOMAIN players)

\* The bets of the current round of all seats.
TotalRoundBets == SumOver([i \in DOMAIN players |-> players[i].bet_this_round],
                          DOMAIN players)

\* The starting stacks passed to start_hand.
StartingStacks == SumSeq(start_chips)

\* C1: in every state reached from start_hand by process_action calls, the
\* states after the end of the hand included, the chips of all seats plus
\* the pot accumulator plus the round bets of all seats equal the sum of the
\* starting stacks.
ChipConservation ==
    HandStarted => TotalChips + pot + TotalRoundBets = StartingStacks

\* C2: in every state in which the hand is over, the chips of all seats
\* equal the sum of the starting stacks: what was wagered is paid out, no
\* chip is created and none is lost.
PayoutConservation ==
    HandStarted /\ is_hand_over => TotalChips = StartingStacks

\* The fields of the engine.
engine == <<players, deck, community_cards, street, pot, current_bet,
            min_raise, last_raise_amount, actions_this_round, bb_has_option,
            button_position, hand_number, is_hand_over, winner, hand_history,
            current_actor>>

\* The step is a call of process_action that the engine rejects.
Rejected == result'.op = "process_action" /\ ~result'.accepted

\* The step is a call of process_action that the engine accepts.
Accepted == result'.op = "process_action" /\ result'.accepted

\* C3: a call of process_action that is rejected, because the seat is not
\* the designated actor or because the action fails validation, gives a
\* reason and leaves every field of the engine as it was.
RejectedUnchanged ==
    [][Rejected => UNCHANGED engine /\ result'.error # "None"]_vars

\* A hand in play has just rejected an action of its designated actor.
RejectedInvalidAction ==
    /\ HandStarted /\ ~is_hand_over /\ current_actor # NoOne
    /\ result.op = "process_action" /\ ~result.accepted
    /\ result.error \notin {"None", "Not your turn"}

\* The seats that have not folded.
NotFolded == {i \in DOMAIN players : ~is_folded(players[i])}

\* The step is an accepted Fold that leaves exactly one seat that has not
\* folded.
LastFold ==
    /\ Accepted
    /\ result'.call.action_type = "fold"
    /\ Cardinality(NotFolded') = 1

\* The hand has been ended by a fold: at most one seat has not folded.
FoldedOut == HandStarted /\ Cardinality(NotFolded) <= 1

\* No seat's chips change in the step.
ChipsUnchanged ==
    /\ DOMAIN players' = DOMAIN players
    /\ \A i \in DOMAIN players : players'[i].chips = players[i].chips

\* C4: an accepted Fold that leaves exactly one seat not folded gives that
\* seat the accumulated pot plus the round bets of all seats, the hand
\* reports over, the street becomes Showdown and no seat is the actor; in
\* every later state of the hand still no seat is the actor and no seat's
\* chips change again.
SingleSurvivor ==
    [][/\ LastFold =>
            /\ \A w \in NotFolded' :
                  players'[w].chips = players[w].chips + pot + TotalRoundBets
            /\ is_hand_over'
            /\ street' = "showdown"
            /\ current_actor' = NoOne
       /\ FoldedOut /\ hand_number' = hand_number =>
            /\ current_actor' = NoOne
            /\ ChipsUnchanged]_vars

\* C5: in every state in which the hand is over, get_current_player returns
\* the value for no actor, never a seat.
NoActorWhenOver ==
    HandStarted /\ is_hand_over => get_current_player(Self) = NoOne

\* A hand is in play.
HandInPlay == HandStarted /\ ~is_hand_over

\* What process_action reads of the engine, the per-round action counter
\* apart.
Situation == <<players, deck, community_cards, street, pot, current_bet,
               min_raise, last_raise_amount, bb_has_option, button_position,
               is_hand_over, winner, current_actor>>

\* The per-round action counter has passed the number of seats, the only
\* value _is_betting_round_over compares it with.
CounterPassed == actions_this_round >= Cardinality(DOMAIN players)

\* C6: every sequence of accepted actions ends the hand after a bounded
\* number of them; so no accepted action leaves a hand in play in the very
\* situation it was in, the counter apart, where the caller can repeat the
\* action for ever.
EveryActionProgresses ==
    [][Accepted /\ HandInPlay /\ CounterPassed => Situation' # Situation]_vars

\* C7: in every state of a hand that is not over, get_current_player returns
\* a seat, and process_action accepts at least one action from that seat.
SomeoneCanAct ==
    HandInPlay =>
        /\ get_current_player(Self) \in DOMAIN players
        /\ \E action \in Actions : accepts(Self, current_actor, action)

\* The whole-chip amounts up to all the chips in play.
ChipAmounts == {Chip(a) : a \in 1 .. (StartingStacks \div Unit)}

\* The amounts of an action of kind K that the rules of validate_action
\* allow the seat: a Bet of at most the seat's chips, a RaiseTo of at least
\* current_bet + min_raise and at most the seat's chips plus its round bet;
\* the other kinds take no amount.
LegalAmounts(K, seat) ==
    CASE K = "bet" -> {a \in ChipAmounts : a <= players[seat].chips}
      [] K = "raise" ->
            {a \in ChipAmounts :
                /\ a - current_bet >= min_raise
                /\ a <= players[seat].chips + players[seat].bet_this_round}
      [] OTHER -> {0}

\* The amounts a caller may try with an action of kind K.
AnyAmounts(K) == IF K \in {"bet", "raise"} THEN ChipAmounts ELSE {0}

\* C8: for the designated actor of a hand in play and every kind K of
\* action, K is in get_legal_actions(seat) only if process_action accepts K
\* for every amount in K's legal range, and a kind that get_legal_actions
\* omits is rejected for every amount.
LegalityAgreement ==
    HandInPlay /\ current_actor \in DOMAIN players =>
        \A K \in ActionTypes :
            IF K \in Range(get_legal_actions(Self, current_actor))
            THEN \A a \in LegalAmounts(K, current_actor) :
                    accepts(Self, current_actor, Action(K, a))
            ELSE \A a \in AnyAmounts(K) :
                    ~accepts(Self, current_actor, Action(K, a))

\* The step is an accepted AllIn of a seat in a hand in play.
AllInStep == Accepted /\ HandInPlay /\ result'.call.action_type = "all_in"

\* The seat that acts in the step.
Actor == seat_at(Self, result'.call.player_id)

\* The total the acting seat has in front of it once it is all-in.
AllInTotal == players[Actor].bet_this_round + players[Actor].chips

\* The amount by which that total exceeds the bet to match.
Increment == AllInTotal - current_bet

\* The betting round goes on after the step.
RoundGoesOn == street' = street /\ ~is_hand_over'

\* Seat j has bet, raised or called in this round and has matched the
\* current bet.
HasMatched(j) ==
    /\ players[j].state = "active"
    /\ players[j].last_action \in {"Bet", "Raise To", "Call"}
    /\ players[j].bet_this_round = current_bet

\* C9: an all-in for a total that exceeds current_bet by less than
\* min_raise raises current_bet to that total and leaves min_raise as it
\* was, and every seat that had bet or called the previous current_bet in
\* the round may then Fold and Call but not Raise.
ShortAllInNoReopen ==
    [][AllInStep /\ 0 < Increment /\ Increment < min_raise /\ RoundGoesOn =>
          /\ current_bet' = AllInTotal
          /\ min_raise' = min_raise
          /\ \A j \in DOMAIN players \ {Actor} :
                HasMatched(j) =>
                    LET legal == Range(get_legal_actions(Self, j)')
                    IN  /\ "fold" \in legal
                        /\ "call" \in legal
                        /\ "raise" \notin legal]_vars

\* C10: an all-in for a total that exceeds current_bet by min_raise or
\* more sets min_raise to the excess, and every other seat still to act
\* whose chips cover the call plus the new min_raise may Raise again.
FullAllInReopens ==
    [][AllInStep /\ 0 < Increment /\ Increment >= min_raise /\ RoundGoesOn =>
          /\ min_raise' = Increment
          /\ \A j \in DOMAIN players \ {Actor} :
                /\ players[j].state = "active"
                /\ players[j].bet_this_round <= current_bet
                /\ players[j].chips >=
                      (AllInTotal - players[j].bet_this_round) + Increment
                => "raise" \in Range(get_legal_actions(Self, j)')]_vars

\* A seat that raised faces an all-in that exceeds its raise by more than
\* the big blind, the new min_raise, and may Raise again.
RaiserMayRaiseAgain ==
    /\ HandInPlay
    /\ result.op = "process_action" /\ result.accepted
    /\ result.call.action_type = "all_in"
    /\ \E j \in DOMAIN players :
          /\ players[j].state = "active"
          /\ players[j].last_action = "Raise To"
          /\ min_raise = current_bet - players[j].bet_this_round
          /\ min_raise > big_blind
          /\ "raise" \in Range(get_legal_actions(Self, j))

\* Seat j is the small blind of the preflop round and has acted in it.
SmallBlindActed(j) ==
    /\ street = "preflop"
    /\ j = sb_position(Cardinality(DOMAIN players), button_position)
    /\ players[j].state = "active"
    /\ players[j].last_action \in {"Check", "Call", "Bet", "Raise To"}

\* Seat j owes less than a full raise: the last raise it faces was a short
\* all-in.
FacesShortRaise(j) ==
    /\ 0 < current_bet - players[j].bet_this_round
    /\ current_bet - players[j].bet_this_round < min_raise

\* C11: the preflop exemption of the small blind from the no-reopen rule
\* ends with its first action: a small blind that has acted preflop and
\* then faces a short all-in raise does not get Raise from
\* get_legal_actions.
SmallBlindExemptionEnds ==
    HandInPlay =>
        \A j \in DOMAIN players :
            SmallBlindActed(j) /\ FacesShortRaise(j) =>
                "raise" \notin Range(get_legal_actions(Self, j))

(***************************************************************************)
(* The side-pot computation alone: _calculate_pots applied to seats of     *)
(* any hand contributions, any of them folded.                             *)
(***************************************************************************)
\* The largest hand contribution tried, in whole chips.
MaxContribution == 3

\* The hand contributions of three seats that are tried, in whole chips.
Contributions ==
    [1 .. 3 -> 0 .. MaxContribution] \cup {<<1000, 500, 200>>}

\* A seat that has put contribution into the hand and has folded or not.
Contributor(contribution, folded) ==
    [Player(0) EXCEPT !.bet_this_hand = Chip(contribution),
                      !.state = IF folded THEN "folded" ELSE "active"]

InitPots ==
    /\ \E c \in Contributions : \E F \in SUBSET (0 .. 2) :
          Is([NewGame(DeckA) EXCEPT
                 !.players = [i \in 0 .. 2 |-> Contributor(c[i + 1], i \in F)]])
    /\ result = [op |-> "PokerGame", accepted |-> TRUE, error |-> "None",
                 call |-> NoCall]
    /\ start_chips = <<>>
    /\ after_over = 0

\* A call of _calculate_pots(); the result keeps the list it returns.
CalculatePots ==
    /\ result.op = "PokerGame"
    /\ result' = [op |-> "_calculate_pots", pots |-> _calculate_pots(Self)]
    /\ UNCHANGED <<engine, start_chips, after_over>>

PotSpec == InitPots /\ [][CalculatePots]_vars

\* The hand contribution of seat i.
Contribution(i) == players[i].bet_this_hand

\* The distinct positive contribution levels, ascending.
Levels == SortAsc({Contribution(i) : i \in DOMAIN players} \ {0})

\* The pot of the k-th level by the rule: (level - previous level) times
\* the number of seats that contributed the level or more, for the seats
\* among them that have not folded.
LevelPot(k) ==
    LET level == Levels[k]
        previous_level == IF k = 1 THEN 0 ELSE Levels[k - 1]
        contributors == {i \in DOMAIN players : Contribution(i) >= level}
    IN  [amount |-> (level - previous_level) * Cardinality(contributors),
         eligible_players |-> contributors \cap NotFolded]

\* C12: for all hand contributions and all sets of folded seats,
\* _calculate_pots returns one pot per distinct positive contribution
\* level, ascending, of amount (level - previous level) x (seats that
\* contributed the level or more), whose eligible seats are the seats among
\* those that have not folded.
OnePotPerLevel ==
    result.op = "_calculate_pots" =>
        result.pots = [k \in 1 .. Len(Levels) |-> LevelPot(k)]

\* The levels that a seat that has not folded has contributed: the first
\* ones, the seats of a level being among the seats of the levels below.
LevelsReached ==
    {k \in 1 .. Len(Levels) : LevelPot(k).eligible_players # {}}

\* What the seats of the levels that no seat in the hand has contributed
\* have put in above the last level reached.
DeadMoney ==
    SumOver([k \in 1 .. Len(Levels) |-> LevelPot(k).amount],
            (1 .. Len(Levels)) \ LevelsReached)

\* The input is the contributions 1000, 500, 200 with no seat folded.
ExampleInput ==
    /\ [i \in DOMAIN players |-> Contribution(i)]
           = [i \in 0 .. 2 |-> Chip(<<1000, 500, 200>>[i + 1])]
    /\ NotFolded = {0, 1, 2}

\* The pots are 600 for the three seats, 600 for two and 500 for one.
PotsOfExample ==
    result.pots = <<[amount |-> Chip(600), eligible_players |-> {0, 1, 2}],
                    [amount |-> Chip(600), eligible_players |-> {0, 1}],
                    [amount |-> Chip(500), eligible_players |-> {0}]>>

\* C12, amended: _calculate_pots returns one pot per distinct positive
\* contribution level that some seat that has not folded has contributed,
\* ascending, of amount (level - previous level) x (seats that contributed
\* the level or more), for exactly the seats among those that have not
\* folded; what was put in above the last such level is added to the last
\* pot, and is in no pot when there is none.  Contributions 1000, 500, 200
\* with no seat folded give pots 600, 600 and 500.
OnePotPerLevelReached ==
    result.op = "_calculate_pots" =>
        /\ result.pots =
              [k \in LevelsReached |->
                  IF k = Cardinality(LevelsReached)
                  THEN [LevelPot(k) EXCEPT !.amount = @ + DeadMoney]
                  ELSE LevelPot(k)]
        /\ ExampleInput => PotsOfExample

\* The pots have been computed of seats of which the one that put in the
\* most has folded: its level has no pot, the pot below holds its chips.
DeadLevelMerged ==
    /\ result.op = "_calculate_pots"
    /\ LevelsReached # {}
    /\ DeadMoney > 0
    /\ Len(result.pots) < Len(Levels)

\* The state a call of process_action returns that has performed the
\* showdown: the seats' states and hand contributions are the ones
\* _showdown has computed the pots of.
AfterShowdown ==
    /\ HandStarted
    /\ is_hand_over
    /\ after_over = 0
    /\ Cardinality(NotFolded) >= 2

\* C13: every pot computed at showdown has eligible seats, and each of them
\* has not folded and has contributed to the hand at least the level of
\* the pot (the k-th pot is of the k-th distinct positive contribution).
EligibleSeatsReachLevel ==
    AfterShowdown =>
        LET pots == _calculate_pots(Self)
        IN  /\ Len(pots) <= Len(Levels)
            /\ \A k \in 1 .. Len(pots) :
                  /\ pots[k].eligible_players # {}
                  /\ \A q \in pots[k].eligible_players :
                        /\ players[q].state # "folded"
                        /\ players[q].bet_this_hand >= Levels[k]

\* A showdown with a side pot and with chips of a seat that has folded.
ShowdownWithSidePot ==
    /\ AfterShowdown
    /\ Len(_calculate_pots(Self)) >= 2
    /\ \E i \in DOMAIN players :
          players[i].state = "folded" /\ players[i].bet_this_hand > 0

\* The HandEvaluator score of every seat that has not folded.
Scores ==
    [i \in NotFolded |-> evaluate(players[i].hand, community_cards)]

\* The seats of the highest score among the eligible seats.
BestEligible(score, eligible) ==
    {i \in eligible : \A j \in eligible : score[j] <= score[i]}

\* What seat i is due of the pots: of each pot it is among the best of, the
\* amount divided by the number of the best.
Due(pots, score, i) ==
    SumOver([k \in DOMAIN pots |->
                LET best == BestEligible(score, pots[k].eligible_players)
                IN  IF i \in best THEN pots[k].amount \div Cardinality(best)
                    ELSE 0],
            DOMAIN pots)

\* What the showdown has paid seat i: the chips it has more than the
\* starting stack less what it has put in the hand.
Paid(i) ==
    players[i].chips - (start_chips[i + 1] - players[i].bet_this_hand)

\* C14: the showdown pays each pot to the seats of the highest score among
\* the pot's eligible seats and to no other seat, in equal parts.
PotsToBestHands ==
    AfterShowdown =>
        \A pots \in {_calculate_pots(Self)} : \A score \in {Scores} :
            \A i \in DOMAIN players : Paid(i) = Due(pots, score, i)

\* After a showdown one pot was split and one had an eligible seat that
\* lost.
SplitAndLost ==
    /\ AfterShowdown
    /\ \E pots \in {_calculate_pots(Self)} : \E score \in {Scores} :
          /\ \E k \in DOMAIN pots :
                Cardinality(BestEligible(score, pots[k].eligible_players)) >= 2
          /\ \E k \in DOMAIN pots :
                pots[k].eligible_players
                    \ BestEligible(score, pots[k].eligible_players) # {}

\* What seat i can win at most: of every seat what the seat has put in the
\* hand, up to what seat i has put in itself.
Cap(i) ==
    SumOver([j \in DOMAIN players |->
                Min(players[j].bet_this_hand, players[i].bet_this_hand)],
            DOMAIN players)

\* A heads-up showdown of two all-in seats of different starting stacks.
HeadsUpAllIn ==
    /\ AfterShowdown
    /\ DOMAIN players = 0 .. 1
    /\ \A i \in 0 .. 1 : players[i].state = "all_in"
    /\ start_chips[1] # start_chips[2]

\* The stacks after a heads-up all-in showdown, deep the seat of the deeper
\* starting stack A and short the seat of the shorter one B.
HeadsUpStacks(deep, short) ==
    LET A == start_chips[deep + 1]
        B == start_chips[short + 1]
        final == <<players[deep].chips, players[short].chips>>
    IN  \A score \in {Scores} :
            /\ score[deep] > score[short] => final = <<A + B, 0>>
            /\ score[deep] < score[short] => final = <<A - B, 2 * B>>
            /\ score[deep] = score[short] => final = <<A, B>>

\* C15: the showdown pays no seat more than, of every seat, what that seat
\* has put in up to the seat's own contribution; heads-up with both seats
\* all-in for A > B it leaves (A + B, 0), (A - B, 2 B) or (A, B) as the
\* deeper stack wins, loses or ties.
AwardWithinContribution ==
    /\ AfterShowdown => \A i \in DOMAIN players : Paid(i) <= Cap(i)
    /\ HeadsUpAllIn =>
          \A deep \in 0 .. 1 :
              start_chips[deep + 1] > start_chips[2 - deep] =>
                  HeadsUpStacks(deep, 1 - deep)

\* The shorter stack has won a heads-up all-in showdown: the deeper stack
\* keeps what was not called.
ShortStackDoubles ==
    /\ HeadsUpAllIn
    /\ \E short \in 0 .. 1 :
          /\ start_chips[short + 1] < start_chips[2 - short]
          /\ players[short].chips = 2 * start_chips[short + 1]
          /\ players[1 - short].chips
                 = start_chips[2 - short] - start_chips[short + 1]

\* The seats that can act: neither folded nor all-in.
AbleToAct ==
    {i \in DOMAIN players : players[i].state = "active"}

\* The seats that have had an accepted action in the betting round (a
\* street advance clears last_action, an action sets it).
ActedThisRound ==
    {i \in DOMAIN players : players[i].last_action # "None"}

\* An accepted check or fold at no bet closes the betting round: the
\* street advances and two seats or more are left in the hand.
ClosesCheckedRound ==
    /\ Accepted
    /\ HandInPlay
    /\ street # "preflop"
    /\ current_bet = 0
    /\ result'.call.action_type \in {"check", "fold"}
    /\ street' # street
    /\ Cardinality(NotFolded') >= 2

\* C16: at no bet the betting round closes only after every seat that is
\* neither folded nor all-in has had an accepted action in the round, also
\* when seats fold in the round.
ClosesAfterAllActed ==
    [][ClosesCheckedRound =>
          (AbleToAct' \ {Actor}) \subseteq ActedThisRound]_vars

\* The seat of the big blind.
BigBlind == bb_position(Cardinality(DOMAIN players), button_position)

\* The big blind holds its option in the preflop round.
OptionPending == HandInPlay /\ street = "preflop" /\ bb_has_option

\* The option is pending and every other seat in the hand has only called.
OthersOnlyCalled ==
    /\ OptionPending
    /\ current_bet = big_blind
    /\ NotFolded \ {BigBlind} # {}
    /\ \A i \in NotFolded \ {BigBlind} :
          /\ players[i].last_action = "Call"
          /\ players[i].bet_this_round = current_bet

\* The preflop round closes in the step while the option is pending.
ClosesPreflop ==
    /\ OptionPending
    /\ street' # "preflop"
    /\ Cardinality(NotFolded') >= 2

\* The step is an accepted action of the big blind.
BigBlindActs == Accepted /\ Actor = BigBlind

\* Once every other seat has only called, the big blind is the designated
\* actor and may check.
OptionOffered ==
    OthersOnlyCalled =>
        /\ current_actor = BigBlind
        /\ "check" \in Range(get_legal_actions(Self, BigBlind))

\* C17: while the big blind that posted its full amount holds the option,
\* the preflop round closes only by an action of the big blind; when the
\* others have only called, the big blind is the designated actor and may
\* check; its first accepted action consumes the option; the flop that
\* follows has 3 cards.
BigBlindOption ==
    [][/\ ClosesPreflop => BigBlindActs
       /\ OptionOffered'
       /\ OptionPending /\ BigBlindActs => ~bb_has_option'
       /\ street = "preflop" /\ street' = "flop" =>
             Len(community_cards') = 3]_vars

\* The chips seat i has once the step's action is applied, before any
\* award: the starting stack less what it has put in the hand.
ChipsBehind(i) == start_chips[i + 1] - players[i].bet_this_hand

\* An accepted action closes a betting round before the river with two
\* seats or more in the hand, one of them at most with chips.
ClosesWithoutBetting ==
    /\ Accepted
    /\ HandInPlay
    /\ street \in {"preflop", "flop", "turn"}
    /\ street' # street
    /\ Cardinality(NotFolded') >= 2
    /\ Cardinality({i \in NotFolded' : ChipsBehind(i)' > 0}) <= 1

\* C18: an accepted action that closes a betting round before the river,
\* with more than one seat in the hand and at most one of them with chips,
\* runs the hand out in the same call: the street is the showdown, the
\* board has 5 cards and the hand is over.
AutoRunOut ==
    [][ClosesWithoutBetting =>
          /\ street' = "showdown"
          /\ Len(community_cards') = 5
          /\ is_hand_over']_vars

\* A showdown of seats of which one at most has chips behind and the
\* others are all-in with the big blind or less: they were all-in when the
\* preflop round closed, which ran the board out.
RanOutFromPreflop ==
    /\ AfterShowdown
    /\ street = "showdown"
    /\ Len(community_cards) = 5
    /\ Cardinality({i \in NotFolded : ChipsBehind(i) > 0}) <= 1
    /\ \A i \in NotFolded :
          ChipsBehind(i) = 0 =>
              /\ players[i].state = "all_in"
              /\ players[i].bet_this_hand > 0
              /\ players[i].bet_this_hand <= big_blind

\* The place of a street in the order Preflop, Flop, Turn, River, Showdown.
StreetIndex(s) == CHOOSE k \in DOMAIN Streets : Streets[k] = s

\* The step is a call of process_action in a hand.
ActionStep == HandStarted /\ result'.op = "process_action"

\* The street stays or moves to its immediate successor.
StaysOrSucceeds ==
    \/ street' = street
    \/ StreetIndex(street') = StreetIndex(street) + 1

\* The step runs the hand out: more than one seat in the hand, one at most
\* with chips, and the showdown with 5 cards.
RunsOut ==
    /\ Cardinality(NotFolded') >= 2
    /\ Cardinality({i \in NotFolded' : ChipsBehind(i)' > 0}) <= 1
    /\ street' = "showdown"
    /\ Len(community_cards') = 5

\* The step is the fold that leaves one seat in the hand.
FoldsOut ==
    /\ Accepted
    /\ result'.call.action_type = "fold"
    /\ Cardinality(NotFolded') = 1
    /\ is_hand_over'
    /\ street' = "showdown"

\* C19: in a hand the street never moves backwards, and every change of
\* street goes to the immediate successor, the auto run-out excepted.
StreetsInOrder ==
    [][ActionStep => StaysOrSucceeds \/ RunsOut]_vars

\* C19, amended: every change of street goes to the immediate successor,
\* except in the auto run-out and in the fold that leaves one seat in the
\* hand, which ends the hand with the street set to Showdown; the street
\* never moves backwards.
StreetsInOrderOrFoldOut ==
    [][ActionStep =>
          /\ StreetIndex(street') >= StreetIndex(street)
          /\ StaysOrSucceeds \/ RunsOut \/ FoldsOut]_vars

\* A hand has ended before the flop by a fold: the street is the showdown
\* with no community card.
FoldedOutPreflop ==
    /\ HandStarted
    /\ is_hand_over
    /\ street = "showdown"
    /\ community_cards = <<>>
    /\ Cardinality(NotFolded) = 1

\* The state is the one a call of start_hand has returned.
HandJustStarted == result.op = "start_hand"

\* The blind of the amount given that the seat has posted: the amount or,
\* if less, its starting stack, held in bet_this_round.
Posted(seat, blind) ==
    /\ players[seat].bet_this_round = Min(blind, start_chips[seat + 1])
    /\ players[seat].chips = start_chips[seat + 1] - players[seat].bet_this_round

\* C20: after start_hand with 2 seats or more, heads-up the button has
\* posted the small blind and the other seat the big blind, with 3 seats or
\* more seat button+1 the small and seat button+2 the big blind, each
\* min(blind, chips) held in bet_this_round; the pot is 0, current_bet and
\* min_raise are the big blind, the street is Preflop, every seat holds 2
\* hole cards, and the designated actor is the seat after the big blind.
StateAfterStartHand ==
    HandJustStarted =>
        LET n == Len(start_chips)
            sb == IF n = 2 THEN button_position ELSE (button_position + 1) % n
            bb == IF n = 2 THEN 1 - button_position
                  ELSE (button_position + 2) % n
        IN  /\ n >= 2
            /\ DOMAIN players = 0 .. (n - 1)
            /\ Posted(sb, small_blind)
            /\ Posted(bb, big_blind)
            /\ \A i \in DOMAIN players \ {sb, bb} :
                  /\ players[i].bet_this_round = 0
                  /\ players[i].chips = start_chips[i + 1]
            /\ pot = 0
            /\ current_bet = big_blind
            /\ min_raise = big_blind
            /\ street = "preflop"
            /\ \A i \in DOMAIN players : Len(players[i].hand) = 2
            /\ current_actor = (bb + 1) % n

\* A hand of three seats has started in which the big blind had less than
\* the blind and posted what it had.
ShortBigBlindPosted ==
    /\ HandJustStarted
    /\ Len(start_chips) = 3
    /\ players[BigBlind].bet_this_round = start_chips[BigBlind + 1]
    /\ players[BigBlind].bet_this_round < big_blind
    /\ current_actor = button_position

\* The first seat of S in cyclic seating order from seat start on, of n
\* seats.
FirstFrom(start, S, n) ==
    CHOOSE i \in S : \A j \in S : (i - start) % n <= (j - start) % n

\* The step advances the street to a betting round.
AdvancesToRound ==
    /\ ActionStep
    /\ HandInPlay
    /\ street' # street
    /\ street' \in {"flop", "turn", "river"}

HeadsUp == HandStarted /\ DOMAIN players = 0 .. 1

\* The step is the small blind's accepted call of the big blind as the
\* first action of a heads-up hand.
SmallBlindCalls ==
    /\ HeadsUp
    /\ HandInPlay
    /\ street = "preflop"
    /\ actions_this_round = 0
    /\ Accepted
    /\ result'.call.action_type = "call"
    /\ result'.call.player_id = button_position

\* C22: heads-up the button, which is the small blind, acts first preflop,
\* the big blind acts after the small blind's call, and once the preflop
\* round has closed and the flop is dealt the button is the first
\* designated actor again.
HeadsUpButtonFirst ==
    [][/\ (HeadsUp /\ HandJustStarted)' => current_actor' = button_position'
       /\ SmallBlindCalls => current_actor' = 1 - button_position
       /\ HeadsUp /\ HandInPlay /\ street = "preflop" /\ street' = "flop" =>
             current_actor' = button_position]_vars

\* The step is an accepted action after which the hand and the betting
\* round go on.
ActsAndGoesOn == Accepted /\ HandInPlay /\ RoundGoesOn

\* C23: after an accepted action that neither ends the hand nor closes the
\* betting round, the designated actor is the first seat after the acting
\* seat, in cyclic order, that is neither folded nor all-in.
NextActorInOrder ==
    [][ActsAndGoesOn =>
          /\ AbleToAct' # {}
          /\ current_actor' =
                FirstFrom((Actor + 1) % Cardinality(DOMAIN players),
                          AbleToAct', Cardinality(DOMAIN players))]_vars

\* C24: in every state of a hand current_bet >= 0 and min_raise >=
\* big_blind, whatever the amounts of the accepted Bet, RaiseTo and AllIn
\* actions.
MinRaiseAtLeastBigBlind ==
    HandStarted => current_bet >= 0 /\ min_raise >= big_blind

(***************************************************************************)
(* ActionValidator.get_legal_actions alone, applied to any situation of    *)
(* a seat: its chips and bet of the round, the bet to match, and the       *)
(* minimum raise.                                                          *)
(***************************************************************************)
\* The largest amount tried for each argument.
MaxAmount == 3

InitLegal ==
    /\ \E c \in 0 .. MaxAmount, cb \in 0 .. MaxAmount, mr \in 0 .. MaxAmount :
       \E b \in 0 .. cb :
          Is([NewGame(DeckA) EXCEPT
                 !.players = [i \in {0} |->
                                 [Player(c) EXCEPT !.bet_this_round = b]],
                 !.current_bet = cb,
                 !.min_raise = mr])
    /\ result = [op |-> "PokerGame", accepted |-> TRUE, error |-> "None",
                 call |-> NoCall]
    /\ start_chips = <<>>
    /\ after_over = 0

\* A call of ActionValidator.get_legal_actions for the seat; the result
\* keeps the list it returns.
GetLegalActions ==
    /\ result.op = "PokerGame"
    /\ result' = [op |-> "get_legal_actions",
                  legal |-> validator_legal_actions(players[0].chips,
                                current_bet, players[0].bet_this_round,
                                min_raise)]
    /\ UNCHANGED <<engine, start_chips, after_over>>

LegalSpec == InitLegal /\ [][GetLegalActions]_vars

\* The kinds in the order Fold, Check, Call, Bet, Raise, AllIn that the
\* rule of each kind allows.
KindsBy(check, call, bet, raise, all_in) ==
    SelectSeq(<<"fold", "check", "call", "bet", "raise", "all_in">>,
              LAMBDA k : \/ k = "fold"
                         \/ k = "check" /\ check
                         \/ k = "call" /\ call
                         \/ k = "bet" /\ bet
                         \/ k = "raise" /\ raise
                         \/ k = "all_in" /\ all_in)

\* What the seat has to add to match the bet.
ToCall == current_bet - players[0].bet_this_round

\* C25: for all non-negative chips, current_bet, bet_this_round <=
\* current_bet and min_raise, the list is Fold; Check iff current_bet =
\* bet_this_round; Call iff current_bet > bet_this_round and chips >= the
\* amount to call; Bet iff current_bet = 0; Raise iff current_bet > 0 and
\* chips - amount to call >= min_raise; AllIn iff chips > 0; in that order.
LegalKindsByRules ==
    result.op = "get_legal_actions" =>
        result.legal =
            KindsBy(ToCall = 0,
                    ToCall > 0 /\ players[0].chips >= ToCall,
                    current_bet = 0,
                    current_bet > 0 /\ players[0].chips - ToCall >= min_raise,
                    players[0].chips > 0)

\* C25, amended: as C25, but Bet and Raise only for a seat that has more
\* chips than the amount to call: Bet iff current_bet = 0 and chips > 0,
\* Raise iff current_bet > 0, chips > amount to call and chips - amount to
\* call >= min_raise.
LegalKindsWithChips ==
    result.op = "get_legal_actions" =>
        result.legal =
            KindsBy(ToCall = 0,
                    ToCall > 0 /\ players[0].chips >= ToCall,
                    current_bet = 0 /\ players[0].chips > 0,
                    /\ current_bet > 0
                    /\ players[0].chips > ToCall
                    /\ players[0].chips - ToCall >= min_raise,
                    players[0].chips > 0)

\* The list has been computed for a seat without chips at no bet: Fold
\* and Check, no Bet.
NoBetWithoutChips ==
    /\ result.op = "get_legal_actions"
    /\ players[0].chips = 0
    /\ current_bet = 0
    /\ result.legal = <<"fold", "check">>

(***************************************************************************)
(* HandEvaluator alone, applied to any 5 to 7 cards of a part of the deck. *)
(***************************************************************************)
\* The four nines, two kings, two deuces and A Q J T of the first suit:
\* four of a kind next to a pair, three pairs, flushes, straight flushes.
HighCards ==
    {CardOf(9, s) : s \in 0 .. 3}
    \cup {CardOf(13, 0), CardOf(13, 1), CardOf(2, 0), CardOf(2, 1),
          CardOf(14, 0), CardOf(12, 0), CardOf(11, 0), CardOf(10, 0)}

\* An ace, three deuces, pairs of 3, 4 and 5, a six and a king: the wheel,
\* the six-high straight, three of a kind, full houses, three pairs.
LowCards ==
    {CardOf(14, 0), CardOf(2, 0), CardOf(2, 1), CardOf(2, 2),
     CardOf(3, 0), CardOf(3, 1), CardOf(4, 0), CardOf(4, 2),
     CardOf(5, 1), CardOf(5, 2), CardOf(6, 1), CardOf(13, 2)}

\* The fewest and the most cards evaluated.
MinCards == 5
MaxCards == 7

\* The card sets evaluated.
CardSets ==
    {S \in (SUBSET HighCards) \cup (SUBSET LowCards) :
        Cardinality(S) \in MinCards .. MaxCards}

\* The seat holds the two lowest cards of S, the board is the others.
InitCards ==
    /\ \E S \in CardSets :
          Is([NewGame(DeckA) EXCEPT
                 !.players = [i \in {0} |->
                                 [Player(0) EXCEPT
                                     !.hand = SubSeq(SortAsc(S), 1, 2)]],
                 !.community_cards = SubSeq(SortAsc(S), 3, Cardinality(S))])
    /\ result = [op |-> "PokerGame", accepted |-> TRUE, error |-> "None",
                 call |-> NoCall]
    /\ start_chips = <<>>
    /\ after_over = 0

\* A call of HandEvaluator.evaluate(hole_cards, community_cards); the
\* result keeps the score.
Evaluate ==
    /\ result.op = "PokerGame"
    /\ result' = [op |-> "evaluate",
                  score |-> evaluate(players[0].hand, community_cards)]
    /\ UNCHANGED <<engine, start_chips, after_over>>

\* The cards given to the evaluator.
AllCards == Range(players[0].hand \o community_cards)

\* The 5-card subsets of the cards given.
Fives == {F \in SUBSET AllCards : Cardinality(F) = 5}

\* The score evaluate gives to 5 cards alone.
ScoreOfFive(F) == evaluate(SortAsc(F), <<>>)

\* The highest score of a 5-card subset.
BestFiveScore ==
    LET scores == {ScoreOfFive(F) : F \in Fives}
    IN  CHOOSE s \in scores : \A t \in scores : t <= s

\* A call of HandEvaluator.get_best_five(hole_cards, community_cards); the
\* result keeps the cards returned.
GetBestFive ==
    /\ result.op = "PokerGame"
    /\ result' = [op |-> "get_best_five",
                  cards |-> get_best_five(players[0].hand, community_cards)]
    /\ UNCHANGED <<engine, start_chips, after_over>>

EvalNext == Evaluate \/ GetBestFive

EvalSpec == InitCards /\ [][EvalNext]_vars

\* C26: for 5 to 7 distinct cards, evaluate returns the highest of the
\* scores it gives to the 5-card subsets of those cards taken alone.
ScoreIsBestOfFives ==
    result.op = "evaluate" => result.score = BestFiveScore

\* C27: for 5 to 7 distinct cards, get_best_five returns exactly 5 distinct
\* cards out of the cards given, and those 5 cards alone score what evaluate
\* reports for all the cards.
BestFiveRealizesScore ==
    result.op = "get_best_five" =>
        /\ Len(result.cards) = 5
        /\ Cardinality(Range(result.cards)) = 5
        /\ Range(result.cards) \subseteq AllCards
        /\ evaluate(result.cards, <<>>) = evaluate(players[0].hand, community_cards)

\* Five cards of the ranks given, not all of one suit / all of one suit.
OffSuit(r) == {CardOf(r[k], (k - 1) % 4) : k \in 1 .. 5}
Suited(r) == {CardOf(r[k], 0) : k \in 1 .. 5}

\* The category of five cards by the rules of poker: 0 high card, 1 pair,
\* 2 two pair, 3 three of a kind, 4 straight, 5 flush, 6 full house,
\* 7 four of a kind, 8 straight flush.
CategoryOfFive(F) ==
    LET R == {RankValue(c) : c \in F}
        n(r) == Cardinality({c \in F : RankValue(c) = r})
        flush == \A c, d \in F : Suit(c) = Suit(d)
        straight ==
            \/ R = {14, 5, 4, 3, 2}
            \/ \E low \in 2 .. 10 : R = low .. (low + 4)
    IN  IF straight /\ flush THEN 8
        ELSE IF \E r \in R : n(r) = 4 THEN 7
        ELSE IF Cardinality(R) = 2 THEN 6
        ELSE IF flush THEN 5
        ELSE IF straight THEN 4
        ELSE IF \E r \in R : n(r) = 3 THEN 3
        ELSE IF Cardinality(R) = 3 THEN 2
        ELSE IF Cardinality(R) = 4 THEN 1
        ELSE 0

\* The category of the best five of the cards given to the evaluator.
Category ==
    LET cats == {CategoryOfFive(F) : F \in Fives}
    IN  CHOOSE c \in cats : \A d \in cats : d <= c

\* The wheel, the six-high straight, and the lowest and the highest hand
\* of every category.
Wheel == OffSuit(<<14, 2, 3, 4, 5>>)
SixHigh == OffSuit(<<2, 3, 4, 5, 6>>)
ReferenceHands ==
    {OffSuit(<<2, 3, 4, 5, 7>>), OffSuit(<<14, 13, 12, 11, 9>>),
     OffSuit(<<2, 2, 3, 4, 5>>), OffSuit(<<14, 14, 13, 12, 11>>),
     OffSuit(<<2, 2, 3, 3, 4>>), OffSuit(<<14, 14, 13, 13, 12>>),
     OffSuit(<<2, 2, 2, 3, 4>>), OffSuit(<<14, 14, 14, 13, 12>>),
     Wheel, SixHigh, OffSuit(<<14, 13, 12, 11, 10>>),
     Suited(<<2, 3, 4, 5, 7>>), Suited(<<14, 13, 12, 11, 9>>),
     OffSuit(<<2, 2, 2, 3, 3>>), OffSuit(<<14, 14, 14, 13, 13>>),
     OffSuit(<<2, 2, 2, 2, 3>>), OffSuit(<<14, 14, 14, 14, 13>>),
     Suited(<<14, 2, 3, 4, 5>>), Suited(<<14, 13, 12, 11, 10>>)}

\* The best five of the cards given are the wheel: a straight with
\* A 2 3 4 5 and no six.
HoldsWheel ==
    /\ Category = 4
    /\ {14, 5, 4, 3, 2} \subseteq {RankValue(c) : c \in AllCards}
    /\ 6 \notin {RankValue(c) : c \in AllCards}

\* C28: a hand of a higher category scores strictly above every hand of a
\* lower category, whatever the kickers (here: above the highest and below
\* the lowest hand of every other category), and the wheel scores as the
\* 5-high straight, below the six-high straight and above every three of
\* a kind.
CategoryOrderAndWheel ==
    result.op = "evaluate" =>
        \A cat \in {Category} :
            /\ \A ref \in ReferenceHands :
                  /\ CategoryOfFive(ref) > cat => ScoreOfFive(ref) > result.score
                  /\ CategoryOfFive(ref) < cat => ScoreOfFive(ref) < result.score
            /\ HoldsWheel =>
                  /\ result.score = Shl(4, 20) + 5
                  /\ result.score < ScoreOfFive(SixHigh)
            /\ cat = 3 => result.score < ScoreOfFive(Wheel)

\* The wheel was scored among seven cards that also hold a pair and a king.
WheelScored ==
    /\ result.op = "evaluate"
    /\ HoldsWheel
    /\ Cardinality(AllCards) = 7
    /\ \E c \in AllCards : RankValue(c) = 13
    /\ result.score = Shl(4, 20) + 5

\* The chip counts a caller passes to start_hand, in whole chips, and the
\* most seats it passes.
StackSizes == {-1, 0, 3}
MaxSeats == 3

\* The players_info lists a caller passes: from no seat to MaxSeats seats.
Configurations ==
    UNION {[1 .. n -> {Chip(c) : c \in StackSizes}] : n \in 0 .. MaxSeats}

\* A call of start_hand(players_info, button) with any list of chip counts;
\* a raised ValueError leaves the five fields assigned before it.
StartHandWith ==
    /\ hand_number < MaxHands
    /\ \E players_info \in Configurations :
       \E button \in 0 .. 1 :
       \E shuffled \in {DeckA, DeckB} :
       \E r \in {start_hand(Self, players_info, button, shuffled)} :
          /\ Becomes(r.g)
          /\ start_chips' = players_info
          /\ result' = [op |-> "start_hand", accepted |-> ~r.raised,
                        error |-> IF r.raised THEN "ValueError" ELSE "None",
                        call |-> NoCall]
    /\ after_over' = 0

ConfigSpec == Init /\ [][StartHandWith]_vars

\* start_hand was given fewer than 2 seats or a negative chip count.
BadConfiguration ==
    /\ result.op = "start_hand"
    /\ \/ Len(start_chips) < 2
       \/ \E i \in DOMAIN start_chips : start_chips[i] < 0

\* C29: start_hand given fewer than 2 seats or a negative chip count fails
\* with an error and starts no hand: no seat is dealt in and no seat is to
\* act.
BadConfigurationRejected ==
    BadConfiguration =>
        /\ ~result.accepted
        /\ result.error = "ValueError"
        /\ DOMAIN players = {}
        /\ current_actor = NoOne

\* The cards of the decks dealt from, the most cards such a deck holds,
\* and the numbers of cards asked for.
DeckCards == {CardOf(14, 0), CardOf(13, 1), CardOf(2, 2), CardOf(2, 3)}
MaxDeck == 3
DealCounts == -1 .. (MaxDeck + 1)

\* The decks dealt from: up to MaxDeck distinct cards in any order.
SmallDecks ==
    {d \in UNION {[1 .. n -> DeckCards] : n \in 0 .. MaxDeck} :
        \A i, j \in DOMAIN d : i # j => d[i] # d[j]}

InitDeck ==
    /\ \E cards \in SmallDecks : Is([NewGame(DeckA) EXCEPT !.deck = cards])
    /\ result = [op |-> "PokerGame", accepted |-> TRUE, error |-> "None",
                 call |-> NoCall]
    /\ start_chips = <<>>
    /\ after_over = 0

\* A call of Deck.deal(n); the result keeps n, the deck before the call
\* and the cards returned.
Deal_n ==
    /\ result.op = "PokerGame"
    /\ \E n \in DealCounts :
       \E r \in {deal(deck, n)} :
          /\ deck' = r.cards
          /\ result' = [op |-> "deal", n |-> n, before |-> deck,
                        raised |-> r.raised, dealt |-> r.dealt]
    /\ UNCHANGED <<players, community_cards, street, pot, current_bet,
                   min_raise, last_raise_amount, actions_this_round,
                   bb_has_option, button_position, hand_number, is_hand_over,
                   winner, hand_history, current_actor, start_chips,
                   after_over>>

DealSpec == InitDeck /\ [][Deal_n]_vars

\* C30: deal(n) with n at most the number of cards left returns the first
\* n cards in order and removes exactly those; with n above it, it fails,
\* returns nothing and leaves the deck as it was.
DealIsPrefixRemoval ==
    result.op = "deal" =>
        IF result.n <= Len(result.before)
        THEN /\ ~result.raised
             /\ result.dealt = [k \in 1 .. result.n |-> result.before[k]]
             /\ result.dealt \o deck = result.before
        ELSE /\ result.raised
             /\ result.dealt = <<>>
             /\ deck = result.before

\* The seats whose state is Folded.
FoldedSeats == {i \in DOMAIN players : players[i].state = "folded"}

\* C32: a seat that is Folded stays Folded until the next start_hand: a
\* call of process_action leaves its state and its chips as they are and
\* never makes it the actor.
FoldedStaysOut ==
    [][ActionStep =>
          \A i \in FoldedSeats :
             /\ players'[i].state = "folded"
             /\ players'[i].chips = players[i].chips
             /\ current_actor' # i]_vars

\* C33: once the hand is over, every call of process_action is rejected and
\* no field of the engine changes until the next start_hand.
ShowdownIsTerminal ==
    [][ActionStep /\ is_hand_over =>
          /\ ~result'.accepted
          /\ engine' = engine]_vars

\* Seat j has acted in this round.
ActedInRound(j) ==
    players[j].last_action \in {"Check", "Call", "Bet", "Raise To"}

\* The bet to match was made by an all-in of another seat than j.
AllInSetTheBet(j) ==
    \E a \in DOMAIN players \ {j} :
        /\ players[a].state = "all_in"
        /\ players[a].last_action = "All-in"
        /\ players[a].bet_this_round = current_bet

\* C34: the actor that has already acted in the round and faces a short
\* all-in raise may only call or fold: get_legal_actions gives it no kind
\* but Fold and Call, and no action that process_action accepts from it
\* increases current_bet.
ShortAllInCallOrFold ==
    HandInPlay /\ current_actor \in DOMAIN players =>
        \A j \in {current_actor} :
            players[j].state = "active" /\ ActedInRound(j)
            /\ FacesShortRaise(j) /\ AllInSetTheBet(j) =>
                /\ Range(get_legal_actions(Self, j)) \subseteq {"fold", "call"}
                /\ \A action \in Actions :
                   \A r \in {process_action(Self, j, action)} :
                       r.accepted => r.g.current_bet <= current_bet

\* The total of all seats' contributions to the hand.
TotalContributed ==
    SumOver([i \in DOMAIN players |-> players[i].bet_this_hand], DOMAIN players)

\* The total of the chips the showdown has paid.
TotalPaid == SumOver([i \in DOMAIN players |-> Paid(i)], DOMAIN players)

\* C35: at a showdown with two or more seats not folded, the amounts of the
\* computed pots sum to the total of all seats' contributions, folded seats
\* included, that total is the accumulated pot, and the chips paid are the
\* chips collected.
PotsSumToContributions ==
    AfterShowdown =>
        \A pots \in {_calculate_pots(Self)} :
            /\ SumOver([k \in DOMAIN pots |-> pots[k].amount], DOMAIN pots)
                  = TotalContributed
            /\ TotalContributed = pot
            /\ TotalPaid = pot

\* C36: in every state in which get_current_player returns a seat, that
\* seat is neither Folded nor AllIn and has chips.
ActorCanAct ==
    HandStarted /\ get_current_player(Self) \in DOMAIN players =>
        /\ players[get_current_player(Self)].state = "active"
        /\ players[get_current_player(Self)].chips > 0

\* The amount the action of the step asks the acting seat to wager: the
\* argument of its place_bet.
Wager ==
    CASE result'.call.action_type = "call" ->
            current_bet - players[Actor].bet_this_round
      [] result'.call.action_type = "bet" -> result'.call.amount
      [] result'.call.action_type = "raise" ->
            result'.call.amount - players[Actor].bet_this_round
      [] result'.call.action_type = "all_in" -> players[Actor].chips
      [] OTHER -> 0

\* The step is an accepted Call, Bet, RaiseTo or AllIn of a hand in play.
WagerStep ==
    /\ Accepted
    /\ HandInPlay
    /\ result'.call.action_type \in {"call", "bet", "raise", "all_in"}

\* The wager of the step moves min(amount, chips) from the acting seat's
\* chips into its bet_this_hand and bet_this_round (the round's bets are
\* collected when the street ends, the chips are paid when the hand ends).
WagerMoved ==
    WagerStep =>
        \A a \in {Actor} : \A moved \in {Min(Wager, players[a].chips)} :
            /\ players'[a].bet_this_hand = players[a].bet_this_hand + moved
            /\ ~is_hand_over' =>
                  players'[a].chips = players[a].chips - moved
            /\ street' = street =>
                  players'[a].bet_this_round = players[a].bet_this_round + moved

\* In a hand in play every seat that started with chips and has not folded
\* is AllIn exactly when it has no chips.
AllInIffNoChips ==
    HandInPlay =>
        \A i \in DOMAIN players :
            start_chips[i + 1] > 0 /\ players[i].state # "folded" =>
                (players[i].state = "all_in" <=> players[i].chips = 0)

\* Right after start_hand the two blinds have moved min(blind, chips) from
\* the chips of their seats into bet_this_round and bet_this_hand.
BlindsMoved ==
    HandJustStarted =>
        /\ Posted(sb_position(Len(start_chips), button_position), small_blind)
        /\ Posted(BigBlind, big_blind)
        /\ \A i \in DOMAIN players :
              players[i].bet_this_hand = players[i].bet_this_round

\* C37: in a hand that is not over a seat that started with chips and has
\* not folded is AllIn if and only if its chips are 0, and each wager, a
\* blind included, moves min(amount, chips) from chips into bet_this_round
\* and bet_this_hand.
AllInAtZeroChips ==
    [](AllInIffNoChips /\ BlindsMoved) /\ [][WagerMoved]_vars

\* A blind took the whole stack of its seat, which was less than the
\* blind, and left it all-in.
BlindTookTheStack ==
    /\ HandJustStarted
    /\ \E i \in DOMAIN players :
          /\ players[i].state = "all_in"
          /\ players[i].chips = 0
          /\ players[i].last_action = "Post BB"
          /\ players[i].bet_this_hand = start_chips[i + 1]
          /\ players[i].bet_this_hand < big_blind

\* The hole cards of all seats, the community cards and the deck in one
\* list.
CardsInPlay ==
    LET holes[i \in 0 .. Cardinality(DOMAIN players)] ==
            IF i = 0 THEN <<>> ELSE holes[i - 1] \o players[i - 1].hand
    IN  holes[Cardinality(DOMAIN players)] \o community_cards \o deck

\* The streets dealt so far, one burned card each: the flop gave 3 cards,
\* the turn and the river 1 each.
StreetsDealt ==
    IF Len(community_cards) = 0 THEN 0 ELSE Len(community_cards) - 2

\* C38: in every state of a hand the hole cards, the community cards and
\* the deck are pairwise distinct cards of the 52; there are 0 community
\* cards on Preflop, 3 on Flop, 4 on Turn, 5 on River; and the deck holds
\* 52 - 2n - c - b cards for n seats, c community cards and b streets
\* dealt.
CardsAccountedFor ==
    HandStarted =>
        /\ \A cs \in {CardsInPlay} :
              /\ Range(cs) \subseteq Cards
              /\ Cardinality(Range(cs)) = Len(cs)
        /\ \A i \in DOMAIN players : Len(players[i].hand) = 2
        /\ street = "preflop" => Len(community_cards) = 0
        /\ street = "flop" => Len(community_cards) = 3
        /\ street = "turn" => Len(community_cards) = 4
        /\ street = "river" => Len(community_cards) = 5
        /\ Len(deck) = Cardinality(Cards) - 2 * Cardinality(DOMAIN players)
                          - Len(community_cards) - StreetsDealt

\* The river of a hand of three seats: 5 community cards, 3 burned, 38 in
\* the deck.
RiverOfThree ==
    /\ HandInPlay
    /\ street = "river"
    /\ Cardinality(DOMAIN players) = 3
    /\ Len(community_cards) = 5
    /\ Len(deck) = 38

\* A round after the flop in which no seat has called, bet, raised or gone
\* all-in: current_bet is 0.
BetFreeRound ==
    /\ street \in {"flop", "turn", "river"}
    /\ current_bet = 0
    /\ \A i \in DOMAIN players :
          players[i].last_action \notin {"Call", "Bet", "Raise To", "All-in"}

\* C39: in a round without a bet, after an accepted action the round goes
\* on only with an actor that can act and has not acted in the round: no
\* seat acts twice, and the round closes once every seat that can act has
\* acted, also when a seat that has not folded is all-in.
CheckedRoundOneTurnEach ==
    [][Accepted /\ HandInPlay /\ BetFreeRound /\ BetFreeRound' /\ RoundGoesOn =>
          /\ current_actor' \in AbleToAct'
          /\ players'[current_actor'].last_action = "None"]_vars

\* No seat's chips or bets, nor the pot or the bet to match, is negative.
NothingNegative ==
    HandStarted =>
        /\ pot >= 0
        /\ current_bet >= 0
        /\ \A i \in DOMAIN players :
              /\ players[i].chips >= 0
              /\ players[i].bet_this_round >= 0
              /\ players[i].bet_this_hand >= 0

\* An accepted Bet or RaiseTo has a positive amount, and an accepted
\* betting action that leaves the hand running does not add to the chips of
\* the seat that acts.
WellFormedWager ==
    /\ Accepted /\ result'.call.action_type \in {"bet", "raise"} =>
          result'.call.amount > 0
    /\ WagerStep /\ ~is_hand_over' =>
          players'[Actor].chips <= players[Actor].chips

\* C40: whatever amounts the calls of process_action carry, zero and
\* negative ones included, chips, bet_this_round, bet_this_hand, the pot and
\* current_bet stay >= 0, no accepted betting action increases the chips of
\* the seat that acts, and a Bet or RaiseTo with a non-positive amount is
\* rejected.
AmountsStayNonNegative == []NothingNegative /\ [][WellFormedWager]_vars

====
